---- MODULE Spec2Model ----
(***************************************************************************)
(* HypurrFiVault: an ERC-4626 vault that runs supply -> borrow -> re-supply *)
(* loops against a lending pool (MockHypurrFiPool).                        *)
(*                                                                         *)
(* Number representation.  Solidity computes in uint256; TLC in 32 bits.   *)
(* Every amount of the model is far below 10^14, which makes the following *)
(* representations exact:                                                   *)
(*  - a price is kept in units of 10^6 (the source scales by 10^8), so      *)
(*    amount * price / 1e8 is  (amount * price) \div PRICE_SCALE;           *)
(*  - a health factor is kept as the exact fraction num/den of units of    *)
(*    10^16 whose floor the pool returns; thresholds are kept in units of   *)
(*    10^16 (1.15e18 is 115), and hf >= k, hf > k are cross-multiplied;     *)
(*  - type(uint256).max is MAX_UINT256, larger than every amount.           *)
(***************************************************************************)
EXTENDS Integers, Sequences, FiniteSets, TLC

\* ---------------------------------------------------------------- bounds
Holders == {"user1", "user2"}
MaxDeposit == 40
DepositAmounts == {10, MaxDeposit}
MintAmounts == {0, 5}
MaxPosition == 60
MaxCalls == 3
MaxShares == 60
WithdrawAmounts == {0, 7}
PriceChoices == {35, 100, 125}
LoopChoices == {0, 2, 4, 11}
CapChoices == {0, 45}

\* ------------------------------------------------------ program constants
BASIS_POINTS == 10000
PRICE_SCALE == 100
HF_LIQUIDATION == 100
MAX_UINT256 == 2000000000
LIQUIDATION_THRESHOLD == 8500
Owner == "owner"
POOL_LIQUIDITY == 1000000

Assets == {"asset", "borrowAsset"}
reservesList == <<"asset", "borrowAsset">>

VARIABLES
    balanceOf,          \* ERC20 share balance of every holder
    totalSupply,        \* ERC20 total shares
    allowances,         \* ERC20 allowance [owner][spender]
    userReserves,       \* pool: the vault's collateral and debt per reserve
    price,              \* pool: reserves[asset].price
    erc20,              \* token balances of the vault and the pool
    targetHealthFactor,
    minHealthFactor,
    maxHealthFactor,
    targetLTV,
    maxLoopIterations,
    maxTotalAssets,
    paused,
    _status,            \* ReentrancyGuard
    txCount,            \* transactions that succeeded so far
    lastCall            \* the call that produced this state and what it did

stateVars == <<balanceOf, totalSupply, allowances, userReserves, price, erc20,
               targetHealthFactor, minHealthFactor, maxHealthFactor, targetLTV,
               maxLoopIterations, maxTotalAssets, paused, _status>>
vars == <<balanceOf, totalSupply, allowances, userReserves, price, erc20,
          targetHealthFactor, minHealthFactor, maxHealthFactor, targetLTV,
          maxLoopIterations, maxTotalAssets, paused, _status, txCount, lastCall>>

\* The whole contract state as one value, so that an operation is a function
\* from the state before the call to the state after it.
World ==
    [balanceOf |-> balanceOf, totalSupply |-> totalSupply, allowances |-> allowances,
     userReserves |-> userReserves, price |-> price, erc20 |-> erc20,
     targetHealthFactor |-> targetHealthFactor, minHealthFactor |-> minHealthFactor,
     maxHealthFactor |-> maxHealthFactor, targetLTV |-> targetLTV,
     maxLoopIterations |-> maxLoopIterations, maxTotalAssets |-> maxTotalAssets,
     paused |-> paused, _status |-> _status]

\* ------------------------------------------------------- execution record
\* ok: no revert so far; w: the state; log: the pool calls made; events: the
\* vault events emitted; steps: the share, token and pool operations and
\* the final health factor check, in the order of execution.
Begin(w) == [ok |-> TRUE, w |-> w, log |-> <<>>, events |-> <<>>, ret |-> 0, paid |-> 0,
             paidTo |-> "none", nested |-> <<>>, steps |-> <<>>]
Step(x, s, a) == [x EXCEPT !.steps = Append(@, [step |-> s, asset |-> a])]
Revert(x) == [x EXCEPT !.ok = FALSE]
Emit(x, e) == IF x.ok THEN [x EXCEPT !.events = Append(@, e)] ELSE x

Min(a, b) == IF a <= b THEN a ELSE b

\* ------------------------------------------------------------ health factor
HF_MAX == [num |-> 1, den |-> 0]
HF_ZERO == [num |-> 0, den |-> 1]
HFGe(hf, k) == hf.num >= k * hf.den
HFGt(hf, k) == hf.num > k * hf.den
HFLt(hf, k) == ~HFGe(hf, k)

\* ------------------------------------------------------- MockHypurrFiPool
collateralValueUSD(w, a) == (w.userReserves[a].collateral * w.price[a]) \div PRICE_SCALE
debtValueUSD(w, a) == (w.userReserves[a].debt * w.price[a]) \div PRICE_SCALE

\* The three sums of the loop over reservesList (two reserves).
totalCollateralInUSD(w) ==
    collateralValueUSD(w, reservesList[1]) + collateralValueUSD(w, reservesList[2])
totalDebtInUSD(w) == debtValueUSD(w, reservesList[1]) + debtValueUSD(w, reservesList[2])
weightedLiquidationThreshold(w) ==
    collateralValueUSD(w, reservesList[1]) * LIQUIDATION_THRESHOLD
        + collateralValueUSD(w, reservesList[2]) * LIQUIDATION_THRESHOLD

\* healthFactor = totalCollateral * currentLiquidationThreshold * 1e18
\*                / (totalDebt * 10000), kept as a fraction of units of 1e16
healthFactorOf(collateral, debt, currentLiquidationThreshold) ==
    IF debt > 0
    THEN [num |-> collateral * currentLiquidationThreshold, den |-> debt * 100]
    ELSE IF collateral > 0 THEN HF_MAX ELSE HF_ZERO

accountData(collateral, debt, weighted) ==
    [collateral |-> collateral, debt |-> debt,
     healthFactor |-> healthFactorOf(collateral, debt,
                          IF collateral > 0 THEN weighted \div collateral ELSE 0)]

getUserAccountData(w) ==
    accountData(totalCollateralInUSD(w), totalDebtInUSD(w), weightedLiquidationThreshold(w))

PoolCall(x, c, a, amt) ==
    Step([x EXCEPT !.log = Append(@, [call |-> c, asset |-> a, amount |-> amt])], c, a)

supply(x, a, amount) ==
    IF ~x.ok THEN x
    ELSE IF amount = 0 THEN Revert(x)
    ELSE IF x.w.erc20[a].vault < amount THEN Revert(x)
    ELSE PoolCall([x EXCEPT !.w.erc20[a].vault = @ - amount,
                            !.w.erc20[a].pool = @ + amount,
                            !.w.userReserves[a].collateral = @ + amount],
                  "supply", a, amount)

poolWithdraw(x, a, amount) ==
    IF ~x.ok THEN x
    ELSE
      LET amountToWithdraw ==
              IF amount = MAX_UINT256 THEN x.w.userReserves[a].collateral ELSE amount
      IN IF amountToWithdraw = 0 THEN Revert(x)
         ELSE IF x.w.userReserves[a].collateral < amountToWithdraw THEN Revert(x)
         ELSE
           LET w1 == [x.w EXCEPT !.userReserves[a].collateral = @ - amountToWithdraw]
               hf == getUserAccountData(w1).healthFactor
           IN IF HFGt(hf, 0) /\ ~HFGe(hf, HF_LIQUIDATION) THEN Revert(x)
              ELSE IF w1.erc20[a].pool < amountToWithdraw THEN Revert(x)
              ELSE PoolCall([x EXCEPT !.w = [w1 EXCEPT
                                        !.erc20[a].pool = @ - amountToWithdraw,
                                        !.erc20[a].vault = @ + amountToWithdraw],
                                      !.ret = amountToWithdraw],
                            "withdraw", a, amountToWithdraw)

borrow(x, a, amount) ==
    IF ~x.ok THEN x
    ELSE IF amount = 0 THEN Revert(x)
    ELSE
      LET w1 == [x.w EXCEPT !.userReserves[a].debt = @ + amount]
          hf == getUserAccountData(w1).healthFactor
      IN IF ~HFGe(hf, HF_LIQUIDATION) THEN Revert(x)
         ELSE IF w1.erc20[a].pool < amount THEN Revert(x)
         ELSE PoolCall([x EXCEPT !.w = [w1 EXCEPT !.erc20[a].pool = @ - amount,
                                                  !.erc20[a].vault = @ + amount]],
                       "borrow", a, amount)

repay(x, a, amount) ==
    IF ~x.ok THEN x
    ELSE IF x.w.userReserves[a].debt = 0 THEN Revert(x)
    ELSE
      LET amountToRepay ==
              IF amount = MAX_UINT256 THEN x.w.userReserves[a].debt
              ELSE Min(amount, x.w.userReserves[a].debt)
      IN IF x.w.erc20[a].vault < amountToRepay THEN Revert(x)
         ELSE PoolCall([x EXCEPT !.w.erc20[a].vault = @ - amountToRepay,
                                 !.w.erc20[a].pool = @ + amountToRepay,
                                 !.w.userReserves[a].debt = @ - amountToRepay,
                                 !.ret = amountToRepay],
                       "repay", a, amountToRepay)


\* ------------------------------------------------- ERC4626 / ERC20 (base)
\* Math.mulDiv(x, y, d, rounding).  An x derived from type(uint256).max
\* overflows 256 bits when y > d (OVERFLOW: the call panics) and is larger
\* than every amount otherwise.
OVERFLOW == 0 - 1
Huge(x) == x > MAX_UINT256 \div 2
mulDiv(x, y, d, up) ==
    IF Huge(x) THEN (IF y > d THEN OVERFLOW ELSE MAX_UINT256)
    ELSE IF up THEN (x * y + d - 1) \div d
    ELSE (x * y) \div d

_getPositionData(w) == getUserAccountData(w)

totalAssets(w) ==
    LET pos == _getPositionData(w)
    IN IF pos.collateral > pos.debt THEN pos.collateral - pos.debt ELSE 0

_convertToShares(w, assets, up) == mulDiv(assets, w.totalSupply + 1, totalAssets(w) + 1, up)
_convertToAssets(w, shares, up) == mulDiv(shares, totalAssets(w) + 1, w.totalSupply + 1, up)
convertToSharesRoundsUp(w, assets) == _convertToShares(w, assets, TRUE)
convertToShares(w, assets) == _convertToShares(w, assets, FALSE)
convertToAssets(w, shares) == _convertToAssets(w, shares, FALSE)
previewDeposit(w, assets) == _convertToShares(w, assets, FALSE)
previewMint(w, shares) == _convertToAssets(w, shares, TRUE)
previewWithdraw(w, assets) == _convertToShares(w, assets, TRUE)
previewRedeem(w, shares) == _convertToAssets(w, shares, FALSE)

_mintForgetsTotal(x, account, value) ==
    IF ~x.ok THEN x ELSE [x EXCEPT !.w.balanceOf[account] = @ + value]

_mint(x, account, value) ==
    IF ~x.ok THEN x
    ELSE Step([x EXCEPT !.w.totalSupply = @ + value, !.w.balanceOf[account] = @ + value],
              "_mint", "shares")

_burn(x, account, value) ==
    IF ~x.ok THEN x
    ELSE IF x.w.balanceOf[account] < value THEN Revert(x)
    ELSE Step([x EXCEPT !.w.balanceOf[account] = @ - value, !.w.totalSupply = @ - value],
              "_burn", "shares")

_spendAllowanceUnchecked(x, owner, spender, value) == x

_spendAllowance(x, owner, spender, value) ==
    IF ~x.ok THEN x
    ELSE IF x.w.allowances[owner][spender] = MAX_UINT256 THEN x
    ELSE IF x.w.allowances[owner][spender] < value THEN Revert(x)
    ELSE [x EXCEPT !.w.allowances[owner][spender] = @ - value]

transfer(w, from, to, value) ==
    LET x == Begin(w)
    IN IF w.balanceOf[from] < value THEN Revert(x)
       ELSE [x EXCEPT !.w.balanceOf[from] = @ - value, !.w.balanceOf[to] = @ + value]

approve(w, owner, spender, value) ==
    [Begin(w) EXCEPT !.w.allowances[owner][spender] = value]

\* SafeERC20.safeTransferFrom(asset, caller, vault, assets): callers hold
\* and have approved the base asset (the tests fund every user).
receiveAssets(x, assets) ==
    IF ~x.ok THEN x
    ELSE Step([x EXCEPT !.w.erc20["asset"].vault = @ + assets], "safeTransferFrom", "asset")

\* SafeERC20.safeTransfer(asset, receiver, assets)
sendAssetsAllHeld(x, receiver, assets) ==
    IF ~x.ok THEN x
    ELSE IF x.w.erc20["asset"].vault < assets THEN Revert(x)
    ELSE [x EXCEPT !.w.erc20["asset"].vault = 0, !.paid = @ + x.w.erc20["asset"].vault,
                   !.paidTo = receiver]

sendAssets(x, receiver, assets) ==
    IF ~x.ok THEN x
    ELSE IF x.w.erc20["asset"].vault < assets THEN Revert(x)
    ELSE Step([x EXCEPT !.w.erc20["asset"].vault = @ - assets, !.paid = @ + assets,
                        !.paidTo = receiver],
              "safeTransfer", "asset")


\* ------------------------------------------------------------ modifiers
nonReentrantBefore(x) ==
    IF ~x.ok THEN x
    ELSE IF x.w._status = "ENTERED" THEN Revert(x)
    ELSE [x EXCEPT !.w._status = "ENTERED"]

nonReentrantAfter(x) == IF ~x.ok THEN x ELSE [x EXCEPT !.w._status = "NOT_ENTERED"]

whenNotPaused(x) == IF ~x.ok THEN x ELSE IF x.w.paused THEN Revert(x) ELSE x

onlyOwnerOpen(x, caller) == x

onlyOwner(x, caller) == IF ~x.ok THEN x ELSE IF caller # Owner THEN Revert(x) ELSE x

RequireNothing(x, cond) == x

Require(x, cond) == IF ~x.ok THEN x ELSE IF cond THEN x ELSE Revert(x)

\* ------------------------------------------------------- HypurrFiVault views
maxDepositIgnoresPause(w) ==
    LET currentAssets == totalAssets(w)
    IN IF currentAssets >= w.maxTotalAssets THEN 0
       ELSE w.maxTotalAssets - currentAssets

maxDeposit(w) ==
    IF w.paused THEN 0
    ELSE LET currentAssets == totalAssets(w)
         IN IF currentAssets >= w.maxTotalAssets THEN 0
            ELSE w.maxTotalAssets - currentAssets

maxMint(w) ==
    LET maxAssets == maxDeposit(w)
    IN IF maxAssets = 0 THEN 0 ELSE previewDeposit(w, maxAssets)

maxWithdrawInShares(w, owner) == w.balanceOf[owner]

maxWithdraw(w, owner) == previewRedeem(w, w.balanceOf[owner])

maxRedeem(w, owner) == w.balanceOf[owner]

\* -------------------------------------------------------- leverage loop
RECURSIVE LoopFromInclusive(_, _)
LoopFromInclusive(x, iterations) ==
    IF ~x.ok THEN x
    ELSE IF ~(iterations <= x.w.maxLoopIterations) THEN [x EXCEPT !.ret = iterations]
    ELSE
      LET pos == _getPositionData(x.w)
          maxBorrow == (pos.collateral * x.w.targetLTV) \div BASIS_POINTS
      IN IF maxBorrow <= pos.debt THEN [x EXCEPT !.ret = iterations]
         ELSE
           LET toBorrow == maxBorrow - pos.debt
               x1 == borrow(x, "borrowAsset", toBorrow)
               x2 == supply(x1, "borrowAsset", toBorrow)
           IN IF ~x2.ok THEN x2
              ELSE IF HFLt(_getPositionData(x2.w).healthFactor, x2.w.minHealthFactor)
                   THEN Revert(x2)
              ELSE LoopFromInclusive(x2, iterations + 1)

RECURSIVE LoopFrom(_, _)
LoopFrom(x, iterations) ==
    IF ~x.ok THEN x
    ELSE IF ~(iterations < x.w.maxLoopIterations) THEN [x EXCEPT !.ret = iterations]
    ELSE
      LET pos == _getPositionData(x.w)
          maxBorrow == (pos.collateral * x.w.targetLTV) \div BASIS_POINTS
      IN IF maxBorrow <= pos.debt THEN [x EXCEPT !.ret = iterations]
         ELSE
           LET toBorrow == maxBorrow - pos.debt
               x1 == borrow(x, "borrowAsset", toBorrow)
               x2 == supply(x1, "borrowAsset", toBorrow)
           IN IF ~x2.ok THEN x2
              ELSE IF HFLt(_getPositionData(x2.w).healthFactor, x2.w.minHealthFactor)
                   THEN Revert(x2)
              ELSE LoopFrom(x2, iterations + 1)

executeLoopRoundsNeedsCapacity(x1) ==
    LET x2 == LoopFrom(x1, 1)
    IN IF x2.ok /\ x2.ret = 1 /\ x2.w.maxLoopIterations > 1 THEN Revert(x2)
       ELSE Emit(x2, [name |-> "LoopExecuted", iterations |-> x2.ret])

\* _executeLoop after its initial supply: the borrow/supply rounds and the event
executeLoopRounds(x1) ==
    LET x2 == LoopFrom(x1, 1)
    IN Emit(x2, [name |-> "LoopExecuted", iterations |-> x2.ret])

_executeLoop(x, initialAssets) ==
    executeLoopRounds(supply(x, "asset", initialAssets))

\* 10^18 mod c, for c below 46341
WadMod(c) == (((1000000000 % c) * (1000000000 % c)) % c)

\* withdrawRatio = assetsToWithdraw * 1e18 / collateral;
\* debtToRepay = debt * withdrawRatio / 1e18.  With q = floor(debt*a/c): the
\* result is q when c divides a * 1e18 (the ratio is exact); otherwise the
\* ratio is rounded down by less than 1, which lowers debt*ratio/1e18 by less
\* than debt/1e18, so the result is q - 1 when c divides debt*a and q when not.
debtToRepayOf(debt, assetsToWithdraw, collateral) ==
    LET q == (debt * assetsToWithdraw) \div collateral
    IN IF debt = 0 \/ assetsToWithdraw = 0 THEN 0
       ELSE IF (assetsToWithdraw * WadMod(collateral)) % collateral = 0 THEN q
       ELSE IF (debt * assetsToWithdraw) % collateral = 0 THEN q - 1
       ELSE q

_unwindSkipped(x, assetsToWithdraw) ==
    IF ~x.ok THEN x
    ELSE [x EXCEPT !.w.erc20["asset"].vault = @ + assetsToWithdraw]

_unwindWithoutRepay(x, assetsToWithdraw) ==
    IF ~x.ok THEN x
    ELSE IF _getPositionData(x.w).collateral = 0 THEN x
    ELSE poolWithdraw(x, "asset", assetsToWithdraw)

_unwindPosition(x, assetsToWithdraw) ==
    IF ~x.ok THEN x
    ELSE
      LET pos == _getPositionData(x.w)
      IN IF pos.collateral = 0 THEN x
         ELSE
           LET debtToRepay == debtToRepayOf(pos.debt, assetsToWithdraw, pos.collateral)
               x1 == IF debtToRepay > 0 /\ pos.debt > 0
                     THEN repay(poolWithdraw(x, "borrowAsset", debtToRepay),
                                "borrowAsset", debtToRepay)
                     ELSE x
           IN poolWithdraw(x1, "asset", assetsToWithdraw)

checkHealthFactorSkipped(x) == x

\* require(hf >= minHealthFactor, "Unsafe position ...")
checkHealthFactor(x) ==
    IF ~x.ok THEN x
    ELSE Require(Step(x, "checkHealthFactor", "position"),
                 HFGe(_getPositionData(x.w).healthFactor, x.w.minHealthFactor))

\* ------------------------------------------------------------ entry points
\* deposit up to the call of _executeLoop: the modifiers, the checks, the
\* transfer in and the mint
depositEnter(w, caller, assets, receiver) ==
    LET x0 == whenNotPaused(nonReentrantBefore(Begin(w)))
        x1 == Require(x0, assets > 0)
        x2 == Require(x1, assets <= maxDeposit(w))
        shares == previewDeposit(w, assets)
        x3 == Require(x2, shares > 0)
        x4 == receiveAssets(x3, assets)
    IN _mint(x4, receiver, shares)

\* deposit after _executeLoop: the health factor check, the event, the return
depositExit(x6, w, assets) ==
    LET shares == previewDeposit(w, assets)
        x7 == checkHealthFactor(x6)
        x8 == Emit(x7, [name |-> "Deposit", assets |-> assets, shares |-> shares])
    IN nonReentrantAfter([x8 EXCEPT !.ret = shares])

depositMintsAfterLoop(w, caller, assets, receiver) ==
    LET x0 == whenNotPaused(nonReentrantBefore(Begin(w)))
        x1 == Require(x0, assets > 0)
        x2 == Require(x1, assets <= maxDeposit(w))
        shares == previewDeposit(w, assets)
        x3 == Require(x2, shares > 0)
        x4 == receiveAssets(x3, assets)
        x5 == _executeLoop(x4, assets)
    IN depositExit(_mint(x5, receiver, shares), w, assets)

deposit(w, caller, assets, receiver) ==
    depositExit(_executeLoop(depositEnter(w, caller, assets, receiver), assets), w, assets)

\* ERC4626.mint, inherited: the vault does not override it.
mint(w, caller, shares, receiver) ==
    LET x0 == Begin(w)
        maxShares == maxMint(w)
        x1 == Require(x0, maxShares # OVERFLOW /\ shares <= maxShares)
        assets == previewMint(w, shares)
        x2 == receiveAssets(x1, assets)
        x3 == _mint(x2, receiver, shares)
        x4 == Emit(x3, [name |-> "Deposit", assets |-> assets, shares |-> shares])
    IN [x4 EXCEPT !.ret = assets]

withdraw(w, caller, assets, receiver, owner) ==
    LET x0 == nonReentrantBefore(Begin(w))
        x1 == Require(x0, assets > 0)
        x2 == Require(x1, assets <= maxWithdraw(w, owner))
        shares == previewWithdraw(w, assets)
        x3 == Require(x2, shares > 0)
        x4 == IF caller # owner THEN _spendAllowance(x3, owner, caller, shares) ELSE x3
        x5 == _burn(x4, owner, shares)
        x6 == _unwindPosition(x5, assets)
        x7 == sendAssets(x6, receiver, assets)
        x8 == IF x7.ok /\ x7.w.totalSupply > 0 THEN checkHealthFactor(x7) ELSE x7
        x9 == Emit(x8, [name |-> "Withdraw", assets |-> assets, shares |-> shares])
    IN nonReentrantAfter([x9 EXCEPT !.ret = shares])

redeem(w, caller, shares, receiver, owner) ==
    LET x0 == nonReentrantBefore(Begin(w))
        x1 == Require(x0, shares > 0)
        x2 == Require(x1, shares <= maxRedeem(w, owner))
        assets == previewRedeem(w, shares)
        x3 == Require(x2, assets > 0)
        x4 == IF caller # owner THEN _spendAllowance(x3, owner, caller, shares) ELSE x3
        x5 == _burn(x4, owner, shares)
        x6 == _unwindPosition(x5, assets)
        x7 == sendAssets(x6, receiver, assets)
        x8 == IF x7.ok /\ x7.w.totalSupply > 0 THEN checkHealthFactor(x7) ELSE x7
        x9 == Emit(x8, [name |-> "Withdraw", assets |-> assets, shares |-> shares])
    IN nonReentrantAfter([x9 EXCEPT !.ret = assets])


\* ------------------------------------------------------------- rebalancing
\* toRepay = debt * (targetHealthFactor - hf) / targetHealthFactor / 1e18.
\* The first quotient is at most debt, and every debt of the model is below
\* 1e18, so the second quotient is 0.
toRepaySlice(debt, hf, target) == 0

\* the amount one iteration of the deleverage loop withdraws and repays
toRepayOf(debt, hf, target) ==
    LET slice == toRepaySlice(debt, hf, target)
        atLeast == IF slice = 0 THEN debt \div 10 ELSE slice
    IN IF atLeast > debt THEN debt ELSE atLeast

DeleverageLoopNoRepay(x) ==
    IF ~x.ok THEN x
    ELSE
      LET pos == _getPositionData(x.w)
      IN IF ~(HFLt(pos.healthFactor, x.w.targetHealthFactor) /\ pos.debt > 0) THEN x
         ELSE
           LET slice == toRepaySlice(pos.debt, pos.healthFactor, x.w.targetHealthFactor)
               atLeast == IF slice = 0 THEN pos.debt \div 10 ELSE slice
               toRepay == IF atLeast > pos.debt THEN pos.debt ELSE atLeast
           IN poolWithdraw(x, "borrowAsset", toRepay)

RECURSIVE DeleverageLoop(_)
DeleverageLoop(x) ==
    IF ~x.ok THEN x
    ELSE
      LET pos == _getPositionData(x.w)
      IN IF ~(HFLt(pos.healthFactor, x.w.targetHealthFactor) /\ pos.debt > 0) THEN x
         ELSE
           LET toRepay == toRepayOf(pos.debt, pos.healthFactor, x.w.targetHealthFactor)
               x1 == poolWithdraw(x, "borrowAsset", toRepay)
               x2 == repay(x1, "borrowAsset", toRepay)
           IN IF toRepay = 0 THEN x2 ELSE DeleverageLoop(x2)

_deleverageOneRound(x) ==
    IF ~x.ok THEN x
    ELSE
      LET pos == _getPositionData(x.w)
      IN IF ~(HFLt(pos.healthFactor, x.w.targetHealthFactor) /\ pos.debt > 0) THEN x
         ELSE
           LET toRepay == pos.debt \div 10
           IN repay(poolWithdraw(x, "borrowAsset", toRepay), "borrowAsset", toRepay)

_deleverageToTarget(x) == DeleverageLoop(x)

RECURSIVE ReleverageLoop(_)
ReleverageLoop(x) ==
    IF ~x.ok THEN x
    ELSE
      LET pos == _getPositionData(x.w)
          maxNewBorrow == (pos.collateral * x.w.targetLTV) \div BASIS_POINTS
      IN IF ~HFGt(pos.healthFactor, x.w.maxHealthFactor) THEN x
         ELSE IF maxNewBorrow <= pos.debt THEN x
         ELSE
           LET toBorrow == maxNewBorrow - pos.debt
               x1 == borrow(x, "borrowAsset", toBorrow)
               x2 == supply(x1, "borrowAsset", toBorrow)
           IN ReleverageLoop(x2)

_releverageOneRound(x) ==
    IF ~x.ok THEN x
    ELSE
      LET pos == _getPositionData(x.w)
          maxNewBorrow == (pos.collateral * x.w.targetLTV) \div BASIS_POINTS
      IN IF ~HFGt(pos.healthFactor, x.w.maxHealthFactor) THEN x
         ELSE IF maxNewBorrow <= pos.debt THEN x
         ELSE supply(borrow(x, "borrowAsset", maxNewBorrow - pos.debt),
                     "borrowAsset", maxNewBorrow - pos.debt)

_releverageToTarget(x) == ReleverageLoop(x)

rebalanceToTarget(w, caller) ==
    LET x0 == nonReentrantBefore(Begin(w))
        pos == _getPositionData(w)
        branch == IF HFLt(pos.healthFactor, w.targetHealthFactor) THEN "deleverage"
                  ELSE IF HFGt(pos.healthFactor, w.targetHealthFactor) THEN "releverage"
                  ELSE "none"
        x1 == IF branch = "deleverage" THEN _deleverageToTarget(x0)
              ELSE IF branch = "releverage" THEN _releverageToTarget(x0)
              ELSE x0
        x2 == IF branch = "none" THEN x1
              ELSE Emit([x1 EXCEPT !.ret = 1],
                        [name |-> "Rebalanced", oldHealthFactor |-> pos.healthFactor,
                         newHealthFactor |-> _getPositionData(x1.w).healthFactor])
    IN nonReentrantAfter(x2)

rebalanceStaleEvent(w, caller) ==
    LET x0 == nonReentrantBefore(Begin(w))
        pos == _getPositionData(w)
        branch == IF HFLt(pos.healthFactor, w.minHealthFactor) THEN "deleverage"
                  ELSE IF HFGt(pos.healthFactor, w.maxHealthFactor) /\ pos.debt > 0
                       THEN "releverage"
                  ELSE "none"
        x1 == IF branch = "deleverage" THEN _deleverageToTarget(x0)
              ELSE IF branch = "releverage" THEN _releverageToTarget(x0)
              ELSE x0
        x2 == IF branch = "none" THEN x1
              ELSE Emit([x1 EXCEPT !.ret = 1],
                        [name |-> "Rebalanced", oldHealthFactor |-> pos.healthFactor,
                         newHealthFactor |-> pos.healthFactor])
    IN nonReentrantAfter(x2)

rebalance(w, caller) ==
    LET x0 == nonReentrantBefore(Begin(w))
        pos == _getPositionData(w)
        branch == IF HFLt(pos.healthFactor, w.minHealthFactor) THEN "deleverage"
                  ELSE IF HFGt(pos.healthFactor, w.maxHealthFactor) /\ pos.debt > 0
                       THEN "releverage"
                  ELSE "none"
        x1 == IF branch = "deleverage" THEN _deleverageToTarget(x0)
              ELSE IF branch = "releverage" THEN _releverageToTarget(x0)
              ELSE x0
        x2 == IF branch = "none" THEN x1
              ELSE Emit([x1 EXCEPT !.ret = 1],
                        [name |-> "Rebalanced", oldHealthFactor |-> pos.healthFactor,
                         newHealthFactor |-> _getPositionData(x1.w).healthFactor])
    IN nonReentrantAfter(x2)

\* ---------------------------------------------------------- owner functions
pause(w, caller) ==
    LET x == onlyOwner(Begin(w), caller)
    IN IF x.ok THEN [x EXCEPT !.w.paused = TRUE] ELSE x

unpause(w, caller) ==
    LET x == onlyOwner(Begin(w), caller)
    IN IF x.ok THEN [x EXCEPT !.w.paused = FALSE] ELSE x

emergencyDeleverageResetsSupply(w, caller) ==
    LET x0 == nonReentrantBefore(onlyOwner(Begin(w), caller))
        pos == _getPositionData(w)
        x1 == IF pos.debt > 0
              THEN repay(poolWithdraw(x0, "borrowAsset", pos.debt),
                         "borrowAsset", MAX_UINT256)
              ELSE x0
        x2 == poolWithdraw(x1, "asset", MAX_UINT256)
        x3 == IF x2.ok THEN [x2 EXCEPT !.w.paused = TRUE, !.w.totalSupply = 0] ELSE x2
        x4 == Emit(x3, [name |-> "EmergencyDeleveraged",
                        collateralWithdrawn |-> pos.collateral, debtRepaid |-> pos.debt])
    IN nonReentrantAfter(x4)

emergencyDeleverageNoPause(w, caller) ==
    LET x0 == nonReentrantBefore(onlyOwner(Begin(w), caller))
        pos == _getPositionData(w)
        x1 == IF pos.debt > 0
              THEN repay(poolWithdraw(x0, "borrowAsset", pos.debt),
                         "borrowAsset", MAX_UINT256)
              ELSE x0
        x2 == poolWithdraw(x1, "asset", MAX_UINT256)
        x4 == Emit(x2, [name |-> "EmergencyDeleveraged",
                        collateralWithdrawn |-> pos.collateral, debtRepaid |-> pos.debt])
    IN nonReentrantAfter(x4)

emergencyDeleverage(w, caller) ==
    LET x0 == nonReentrantBefore(onlyOwner(Begin(w), caller))
        pos == _getPositionData(w)
        x1 == IF pos.debt > 0
              THEN repay(poolWithdraw(x0, "borrowAsset", pos.debt),
                         "borrowAsset", MAX_UINT256)
              ELSE x0
        x2 == poolWithdraw(x1, "asset", MAX_UINT256)
        x3 == IF x2.ok THEN [x2 EXCEPT !.w.paused = TRUE] ELSE x2
        x4 == Emit(x3, [name |-> "EmergencyDeleveraged",
                        collateralWithdrawn |-> pos.collateral, debtRepaid |-> pos.debt])
    IN nonReentrantAfter(x4)

setParametersUnordered(w, caller, p) ==
    LET x0 == onlyOwner(Begin(w), caller)
        x1 == Require(x0, p.target >= 110 /\ p.target <= 200)
        x2 == Require(x1, p.min >= 105)
        x3 == Require(x2, p.max <= 300)
        x4 == Require(x3, p.ltv > 0 /\ p.ltv <= 8000)
    IN IF ~x4.ok THEN x4
       ELSE Emit([x4 EXCEPT !.w.targetHealthFactor = p.target,
                            !.w.minHealthFactor = p.min,
                            !.w.maxHealthFactor = p.max,
                            !.w.targetLTV = p.ltv],
                 [name |-> "ParametersUpdated"])

setParameters(w, caller, p) ==
    LET x0 == onlyOwner(Begin(w), caller)
        x1 == Require(x0, p.target >= 110 /\ p.target <= 200)
        x2 == Require(x1, p.min >= 105 /\ p.min < p.target)
        x3 == Require(x2, p.max > p.target /\ p.max <= 300)
        x4 == Require(x3, p.ltv > 0 /\ p.ltv <= 8000)
    IN IF ~x4.ok THEN x4
       ELSE Emit([x4 EXCEPT !.w.targetHealthFactor = p.target,
                            !.w.minHealthFactor = p.min,
                            !.w.maxHealthFactor = p.max,
                            !.w.targetLTV = p.ltv],
                 [name |-> "ParametersUpdated"])

setMaxLoopIterations(w, caller, n) ==
    LET x == Require(onlyOwner(Begin(w), caller), n > 0 /\ n <= 10)
    IN IF x.ok THEN [x EXCEPT !.w.maxLoopIterations = n] ELSE x

setMaxTotalAssets(w, caller, n) ==
    LET x == Require(onlyOwner(Begin(w), caller), n > 0)
    IN IF x.ok THEN [x EXCEPT !.w.maxTotalAssets = n] ELSE x

\* MockHypurrFiPool.setAssetPrice, by the pool's owner
setAssetPrice(w, a, newPrice) == [Begin(w) EXCEPT !.w.price[a] = newPrice]

\* ------------------------------------------------------ hostile market
Attacker == "user2"
NestedEntries == {"deposit", "mint", "withdraw", "redeem", "rebalance",
                  "emergencyDeleverage"}

\* marketCallback(x, hook): the market, given control by pool.supply, calls
\* the vault's entry point `hook` before it returns.
marketCallback(x, hook) ==
    IF ~x.ok THEN x
    ELSE
      LET r == CASE hook = "deposit" -> deposit(x.w, Attacker, 1, Attacker)
                 [] hook = "mint" -> mint(x.w, Attacker, 1, Attacker)
                 [] hook = "withdraw" -> withdraw(x.w, Attacker, 1, Attacker, Attacker)
                 [] hook = "redeem" -> redeem(x.w, Attacker, 1, Attacker, Attacker)
                 [] hook = "rebalance" -> rebalance(x.w, Attacker)
                 [] OTHER -> emergencyDeleverage(x.w, Attacker)
      IN [x EXCEPT !.w = IF r.ok THEN r.w ELSE @,
                   !.nested = Append(@, [entry |-> hook, accepted |-> r.ok])]


\* deposit against a market that calls back within the initial supply of
\* _executeLoop
depositReentered(w, caller, assets, receiver, hook) ==
    depositExit(
        executeLoopRounds(
            marketCallback(supply(depositEnter(w, caller, assets, receiver), "asset", assets),
                           hook)),
        w, assets)

\* ---------------------------------------------------------------- actions
ParamChoices ==
    { [target |-> 130, min |-> 115, max |-> 150, ltv |-> 6000],
      [target |-> 150, min |-> 145, max |-> 155, ltv |-> 8000],
      [target |-> 130, min |-> 140, max |-> 150, ltv |-> 6000] }

NoCall ==
    [op |-> "constructor", ok |-> TRUE, caller |-> Owner, amount |-> 0,
     receiver |-> Owner, owner |-> Owner, ret |-> 0, paid |-> 0, paidTo |-> "none", poolCalls |-> 0,
     log |-> <<>>,
     events |-> <<>>, nested |-> <<>>, steps |-> <<>>]

Init ==
    /\ balanceOf = [h \in Holders |-> 0]
    /\ totalSupply = 0
    /\ allowances = [o \in Holders |-> [sp \in Holders |-> 0]]
    /\ userReserves = [a \in Assets |-> [collateral |-> 0, debt |-> 0]]
    /\ price = [a \in Assets |-> 100]
    /\ erc20 = [a \in Assets |->
                  [vault |-> 0, pool |-> IF a = "borrowAsset" THEN POOL_LIQUIDITY ELSE 0]]
    /\ targetHealthFactor = 130
    /\ minHealthFactor = 115
    /\ maxHealthFactor = 150
    /\ targetLTV = 6000
    /\ maxLoopIterations = 4
    /\ maxTotalAssets = MAX_UINT256
    /\ paused = FALSE
    /\ _status = "NOT_ENTERED"
    /\ txCount = 0
    /\ lastCall = NoCall

OutcomeKeepsPartialWrites(x) == x.w

\* A transaction either completes, and its writes become the state, or
\* reverts, and none of them does.
Outcome(x) == IF x.ok THEN x.w ELSE World

\* The next transaction.  A reverted transaction changes nothing, so what
\* can follow it is what can follow the state before it: the behaviours are
\* continued from that state, not from the reverted call.
Commit(x, op, caller, amount, receiver, owner) ==
    LET w == Outcome(x)
    IN /\ txCount < MaxCalls
       /\ lastCall.ok
       /\ txCount' = IF x.ok THEN txCount + 1 ELSE txCount
       /\ balanceOf' = w.balanceOf
       /\ totalSupply' = w.totalSupply
       /\ allowances' = w.allowances
       /\ userReserves' = w.userReserves
       /\ price' = w.price
       /\ erc20' = w.erc20
       /\ targetHealthFactor' = w.targetHealthFactor
       /\ minHealthFactor' = w.minHealthFactor
       /\ maxHealthFactor' = w.maxHealthFactor
       /\ targetLTV' = w.targetLTV
       /\ maxLoopIterations' = w.maxLoopIterations
       /\ maxTotalAssets' = w.maxTotalAssets
       /\ paused' = w.paused
       /\ _status' = w._status
       /\ lastCall' = [op |-> op, ok |-> x.ok,
                       caller |-> caller, amount |-> amount,
                       receiver |-> receiver, owner |-> owner,
                       ret |-> IF x.ok THEN x.ret ELSE 0,
                       paid |-> IF x.ok THEN x.paid ELSE 0,
                       paidTo |-> IF x.ok THEN x.paidTo ELSE "none",
                       poolCalls |-> Len(x.log),
                       log |-> IF x.ok THEN x.log ELSE <<>>,
                       events |-> IF x.ok THEN x.events ELSE <<>>,
                       nested |-> x.nested,
                       steps |-> IF x.ok THEN x.steps ELSE <<>>]

Deposit(caller, assets, receiver) ==
    /\ userReserves["asset"].collateral + erc20["asset"].vault + assets <= MaxPosition
    /\ Commit(deposit(World, caller, assets, receiver),
              "deposit", caller, assets, receiver, receiver)

Mint(caller, shares, receiver) ==
    /\ totalSupply + shares <= MaxShares
    /\ userReserves["asset"].collateral + erc20["asset"].vault + shares <= MaxPosition
    /\ Commit(mint(World, caller, shares, receiver), "mint", caller, shares, receiver, receiver)

Withdraw(caller, assets, receiver, owner) ==
    Commit(withdraw(World, caller, assets, receiver, owner),
           "withdraw", caller, assets, receiver, owner)

Redeem(caller, shares, receiver, owner) ==
    Commit(redeem(World, caller, shares, receiver, owner),
           "redeem", caller, shares, receiver, owner)

Transfer(from, to, value) ==
    Commit(transfer(World, from, to, value), "transfer", from, value, to, from)

Approve(owner, spender, value) ==
    Commit(approve(World, owner, spender, value), "approve", owner, value, spender, owner)

Rebalance(caller) ==
    Commit(rebalance(World, caller), "rebalance", caller, 0, caller, caller)

EmergencyDeleverage(caller) ==
    Commit(emergencyDeleverage(World, caller), "emergencyDeleverage", caller, 0, caller, caller)

Pause(caller) == Commit(pause(World, caller), "pause", caller, 0, caller, caller)

Unpause(caller) == Commit(unpause(World, caller), "unpause", caller, 0, caller, caller)

SetParameters(caller, p) ==
    Commit(setParameters(World, caller, p), "setParameters", caller, p.min, caller, caller)

SetMaxLoopIterations(caller, n) ==
    Commit(setMaxLoopIterations(World, caller, n), "setMaxLoopIterations", caller, n, caller, caller)

SetMaxTotalAssets(caller, n) ==
    Commit(setMaxTotalAssets(World, caller, n), "setMaxTotalAssets", caller, n, caller, caller)

SetAssetPrice(a, newPrice) ==
    /\ price[a] # newPrice
    /\ Commit(setAssetPrice(World, a, newPrice), "setAssetPrice", Owner, newPrice, a, Owner)

Callers == {Owner, "user1"}
ApproveAmounts == {8, MAX_UINT256}
DelegatedAmounts == {7}
Approver == "user1"
Spender == "user2"

Next ==
    \/ \E c \in Holders, a \in DepositAmounts \cup {0} : Deposit(c, a, c)
    \/ \E c \in Holders, s \in MintAmounts : Mint(c, s, c)
    \/ \E o \in Holders : \E a \in WithdrawAmounts \cup {maxWithdraw(World, o)} :
          Withdraw(o, a, o, o)
    \/ \E o \in Holders : \E s \in WithdrawAmounts \cup {balanceOf[o], balanceOf[o] + 1} :
          Redeem(o, s, o, o)
    \/ \E a \in DelegatedAmounts : Withdraw(Spender, a, Spender, Approver)
    \/ \E n \in DelegatedAmounts : Redeem(Spender, n, Spender, Approver)
    \/ \E v \in ApproveAmounts : Approve(Approver, Spender, v)
    \/ \E f \in Holders : \E t \in Holders \ {f}, v \in {1, balanceOf[f]} : Transfer(f, t, v)
    \/ \E c \in Callers : Rebalance(c)
    \/ \E c \in Callers : EmergencyDeleverage(c)
    \/ \E c \in Callers : Pause(c)
    \/ \E c \in Callers : Unpause(c)
    \/ \E c \in Callers, p \in ParamChoices : SetParameters(c, p)
    \/ \E c \in Callers, n \in LoopChoices : SetMaxLoopIterations(c, n)
    \/ \E c \in Callers, n \in CapChoices : SetMaxTotalAssets(c, n)
    \/ \E a \in Assets, p \in PriceChoices : SetAssetPrice(a, p)

Spec == Init /\ [][Next]_vars

\* A deposit into a market that, while pool.supply runs, calls the vault's
\* entry point `hook` on behalf of Attacker.
DepositReentered(caller, assets, hook) ==
    /\ userReserves["asset"].collateral + erc20["asset"].vault + assets + 1 <= MaxPosition
    /\ totalSupply + assets + 1 <= MaxShares
    /\ Commit(depositReentered(World, caller, assets, caller, hook),
              "deposit", caller, assets, caller, caller)

NextReentrant ==
    \/ Next
    \/ \E a \in DepositAmounts, hook \in NestedEntries : DepositReentered("user1", a, hook)

SpecReentrant == Init /\ [][NextReentrant]_vars


\* ------------------------------------------------------------------ claims
HealthFactor == _getPositionData(World).healthFactor

\* A rejected call leaves the state of the call before it (Commit), which was
\* itself reached by an accepted call: what holds of the vault's state after
\* every accepted call holds of it in every reachable state.
AfterAcceptedCall == lastCall.ok

Supplies(log) == Cardinality({i \in 1..Len(log) : log[i].call = "supply"})

RECURSIVE SumShares(_)
SumShares(S) ==
    IF S = {} THEN 0
    ELSE LET h == CHOOSE e \in S : TRUE IN balanceOf[h] + SumShares(S \ {h})

\* C1: after every successful deposit, withdraw or redeem that leaves
\* totalShares > 0 the health factor is at least minHealthFactor, whatever
\* prices and parameters were set between the calls.
C1_HealthFactorFloor ==
    (lastCall.op \in {"deposit", "withdraw", "redeem"} /\ lastCall.ok /\ totalSupply > 0)
        => HFGe(HealthFactor, minHealthFactor)

C1_Witness ==
    /\ lastCall.op = "withdraw" /\ lastCall.ok /\ totalSupply > 0
    /\ userReserves["borrowAsset"].debt > 0
    /\ price["asset"] # 100

\* C2: after every successful rebalance() that leaves totalShares > 0 the
\* health factor is at least minHealthFactor.
C2_RebalanceFloor ==
    (lastCall.op = "rebalance" /\ lastCall.ok /\ totalSupply > 0)
        => HFGe(HealthFactor, minHealthFactor)

C4_ShareConservation ==
    /\ SumShares(Holders) = totalSupply
    /\ totalSupply >= 0
    /\ \A h \in Holders : balanceOf[h] >= 0

C4_Witness ==
    /\ lastCall.op \in {"redeem", "transfer"} /\ lastCall.ok
    /\ \A h \in Holders : balanceOf[h] > 0

CanExit(h) ==
    \/ \E a \in 1..maxWithdraw(World, h) : withdraw(World, h, a, h, h).ok
    \/ \E sh \in 1..balanceOf[h] : redeem(World, h, sh, h, h).ok

\* C6: a holder of shares is never locked out of exit: in every reachable
\* state (paused or not, and right after a successful emergencyDeleverage)
\* some withdraw or some redeem of a positive amount by that holder succeeds.
C6_ExitLiquidity == \A h \in Holders : balanceOf[h] > 0 => CanExit(h)

\* The state that differs from the current one only in paused
Flipped == [World EXCEPT !.paused = ~paused]

SameButPaused(x, y) ==
    /\ x.ok = y.ok
    /\ x.ok => /\ x.ret = y.ret /\ x.paid = y.paid /\ x.log = y.log
               /\ x.events = y.events
               /\ x.w.paused = paused /\ y.w.paused = ~paused
               /\ [x.w EXCEPT !.paused = FALSE] = [y.w EXCEPT !.paused = FALSE]

\* C7: while paused every deposit is rejected and maxDeposit is 0; withdraw
\* and redeem do not read the paused flag: from the state that differs only
\* in paused the same call has the same outcome and the same effect.
C7_PauseGatesDepositsOnly ==
    /\ paused =>
          /\ maxDeposit(World) = 0
          /\ \A c \in Holders : \A a \in DepositAmounts \cup {0} :
                ~deposit(World, c, a, c).ok
    /\ (lastCall.op = "deposit" /\ lastCall.ok) => ~paused
    /\ AfterAcceptedCall =>
          \A o \in Holders :
              /\ \A a \in WithdrawAmounts \cup {maxWithdraw(World, o)} :
                    SameButPaused(withdraw(World, o, a, o, o), withdraw(Flipped, o, a, o, o))
              /\ \A sh \in WithdrawAmounts \cup {balanceOf[o]} :
                    SameButPaused(redeem(World, o, sh, o, o), redeem(Flipped, o, sh, o, o))

C7_Witness ==
    /\ paused /\ lastCall.op \in {"withdraw", "redeem"} /\ lastCall.ok
    /\ lastCall.paid > 0 /\ lastCall.poolCalls > 1

\* C8: a successful mint is the image of a deposit: it is not taken while
\* paused, the assets it charged went to the pool as collateral (a supply
\* of at least that amount), and the health factor is at least
\* minHealthFactor when it returns.
C8_MintSymmetric ==
    (lastCall.op = "mint" /\ lastCall.ok) =>
        /\ ~paused
        /\ lastCall.ret > 0 =>
              \E i \in 1..Len(lastCall.log) :
                  /\ lastCall.log[i].call = "supply"
                  /\ lastCall.log[i].asset = "asset"
                  /\ lastCall.log[i].amount >= lastCall.ret
        /\ HFGe(HealthFactor, minHealthFactor)

\* C9: a call of deposit, mint, withdraw, redeem, rebalance or
\* emergencyDeleverage that the market makes while an operation is in
\* progress is rejected, and the guard is released when the operation ends.
C9_ReentrancyLock ==
    /\ \A i \in 1..Len(lastCall.nested) : ~lastCall.nested[i].accepted
    /\ _status = "NOT_ENTERED"

\* C10: a deposit with totalAssets() + assets > maxTotalAssets is rejected,
\* maxDeposit is maxTotalAssets - totalAssets() (0 at or above the cap and
\* when paused), and after every successful deposit totalAssets() is at
\* most maxTotalAssets.
C10_DepositCap ==
    /\ \A a \in DepositAmounts :
          totalAssets(World) + a > maxTotalAssets
              => ~deposit(World, "user1", a, "user1").ok
    /\ maxDeposit(World) =
          IF paused \/ totalAssets(World) >= maxTotalAssets THEN 0
          ELSE maxTotalAssets - totalAssets(World)
    /\ (lastCall.op = "deposit" /\ lastCall.ok) => totalAssets(World) <= maxTotalAssets

\* What a rejected call has done when it fails: no pool call, no event, and
\* no write to the share ledger, the position or the token balances.
RejectedUntouched(x) ==
    /\ ~x.ok
    /\ x.log = <<>> /\ x.events = <<>>
    /\ x.w.balanceOf = balanceOf /\ x.w.totalSupply = totalSupply
    /\ x.w.userReserves = userReserves /\ x.w.erc20 = erc20

\* C11: deposit(0), withdraw(0) and redeem(0) fail in every reachable state,
\* before any pool call, ledger write or event; no successful deposit,
\* withdraw or redeem has amount 0.
C11_ZeroAmountRejected ==
    /\ \A c \in Holders :
          /\ RejectedUntouched(deposit(World, c, 0, c))
          /\ RejectedUntouched(withdraw(World, c, 0, c, c))
          /\ RejectedUntouched(redeem(World, c, 0, c, c))
    /\ (lastCall.op \in {"deposit", "withdraw", "redeem"} /\ lastCall.ok)
          => lastCall.amount > 0

C11_Witness ==
    /\ lastCall.op \in {"withdraw", "redeem"} /\ ~lastCall.ok /\ lastCall.amount = 0
    /\ balanceOf[lastCall.owner] > 0 /\ userReserves["borrowAsset"].debt > 0

\* The shares a holder received in a step
Minted(h) == balanceOf'[h] - balanceOf[h]

\* What the stated pricing rule gives for a deposit of assets: 1:1 while no
\* share exists, else floor(assets * totalShares / totalAssets) on the totals
\* before the call (no value when shares exist and the assets total is 0)
PricedAsStated(shares, assets) ==
    IF totalSupply = 0 THEN shares = assets
    ELSE /\ totalAssets(World) > 0
         /\ shares = (assets * totalSupply) \div totalAssets(World)

\* C12: a successful deposit mints to the receiver exactly
\* (totalShares = 0 ? assets : floor(assets * totalShares / totalAssets)) on
\* the totals before the call, which is also previewDeposit(assets) before it.
C12_DepositSharePricing ==
    [][(lastCall'.op = "deposit" /\ lastCall'.ok) =>
          /\ Minted(lastCall'.receiver) = previewDeposit(World, lastCall'.amount)
          /\ lastCall'.ret = previewDeposit(World, lastCall'.amount)
          /\ PricedAsStated(Minted(lastCall'.receiver), lastCall'.amount)]_vars

\* C13: in every reachable state and for all assets > 0, converting assets to
\* shares and back gives at most assets:
\* convertToAssets(convertToShares(assets)) <= assets.
C13_RoundTripLoss ==
    AfterAcceptedCall =>
        \A assets \in 1..MaxDeposit :
            convertToAssets(World, convertToShares(World, assets)) <= assets

\* a state whose share price is not 1, where the round trip loses an asset
C13_Witness ==
    /\ totalSupply > 0 /\ totalAssets(World) # totalSupply
    /\ \E assets \in 1..MaxDeposit :
          /\ convertToShares(World, assets) > 0
          /\ convertToAssets(World, convertToShares(World, assets)) < assets

\* ceil(x * y / d) as stated, without virtual shares or assets
CeilRatio(x, y, d) == (x * y + d - 1) \div d

\* C14: in every reachable state with totalShares > 0 and totalAssets > 0,
\* previewWithdraw(assets) = ceil(assets * totalShares / totalAssets) >=
\* convertToShares(assets) and previewMint(shares) =
\* ceil(shares * totalAssets / totalShares) >= convertToAssets(shares), each
\* at most 1 above the rounded-down conversion.
C14_PreviewRounding ==
    (totalSupply > 0 /\ totalAssets(World) > 0) =>
        \A n \in 1..MaxDeposit :
            /\ previewWithdraw(World, n) = CeilRatio(n, totalSupply, totalAssets(World))
            /\ previewWithdraw(World, n) >= convertToShares(World, n)
            /\ previewWithdraw(World, n) <= convertToShares(World, n) + 1
            /\ previewMint(World, n) = CeilRatio(n, totalAssets(World), totalSupply)
            /\ previewMint(World, n) >= convertToAssets(World, n)
            /\ previewMint(World, n) <= convertToAssets(World, n) + 1

\* The holder an entry point acts for: the receiver of minted shares, the
\* owner of burned ones
ActsFor(call) ==
    IF call.op \in {"deposit", "mint"} THEN call.receiver ELSE call.owner

\* C15: after every successful deposit, mint, withdraw or redeem for one
\* holder, convertToAssets(balance) of every other holder is not lower than
\* it was before the call.
C15_RoundingFavorsHolders ==
    [][(lastCall'.op \in {"deposit", "mint", "withdraw", "redeem"} /\ lastCall'.ok) =>
          \A h \in Holders \ {ActsFor(lastCall'), lastCall'.caller} :
              convertToAssets(World', balanceOf'[h]) >= convertToAssets(World, balanceOf[h])]_vars

\* C16: withdraw is rejected, nothing written, when assets exceed
\* maxWithdraw(owner) = previewRedeem(balanceOf(owner)); redeem is rejected,
\* nothing written, when shares exceed balanceOf(owner) = maxRedeem(owner).
C16_WithdrawalLimits ==
    \A o \in Holders :
          /\ maxWithdraw(World, o) = previewRedeem(World, balanceOf[o])
          /\ maxRedeem(World, o) = balanceOf[o]
          /\ \A a \in {maxWithdraw(World, o) + 1, maxWithdraw(World, o) + 2, MAX_UINT256} :
                RejectedUntouched(withdraw(World, o, a, o, o))
          /\ \A n \in {balanceOf[o] + 1, balanceOf[o] + 2, MAX_UINT256} :
                RejectedUntouched(redeem(World, o, n, o, o))

\* a holder of shares was refused an amount above the limit
C16_Witness ==
    /\ ~lastCall.ok /\ lastCall.op \in {"withdraw", "redeem"}
    /\ balanceOf[lastCall.owner] > 0
    /\ \/ lastCall.op = "withdraw" /\ lastCall.amount > maxWithdraw(World, lastCall.owner)
       \/ lastCall.op = "redeem" /\ lastCall.amount > balanceOf[lastCall.owner]

\* C17: in every reachable state with healthFactor >= minHealthFactor, a
\* withdraw by the owner of any amount 0 < assets <= maxWithdraw(owner)
\* succeeds.
C17_MaxWithdrawHonest ==
    HFGe(HealthFactor, minHealthFactor) =>
        \A o \in Holders : \A a \in 1..maxWithdraw(World, o) :
            withdraw(World, o, a, o, o).ok

\* The shares a step burned from the owner of the call it took
Burned == balanceOf[lastCall'.owner] - balanceOf'[lastCall'.owner]

\* The allowance the caller of the step held from the owner before it
AllowanceBefore == allowances[lastCall'.owner][lastCall'.caller]

C19_ExactSettlement ==
    [][/\ (lastCall'.op = "withdraw" /\ lastCall'.ok) =>
             /\ lastCall'.paid = lastCall'.amount
             /\ lastCall'.paidTo = lastCall'.receiver
             /\ Burned = previewWithdraw(World, lastCall'.amount)
             /\ totalSupply - totalSupply' = Burned
       /\ (lastCall'.op = "redeem" /\ lastCall'.ok) =>
             /\ Burned = lastCall'.amount
             /\ totalSupply - totalSupply' = Burned
             /\ lastCall'.paid = previewRedeem(World, lastCall'.amount)
             /\ lastCall'.paidTo = lastCall'.receiver]_vars

\* a settlement at a share price other than 1: the assets paid and the
\* shares burned differ
C19_Witness ==
    /\ lastCall.op \in {"withdraw", "redeem"} /\ lastCall.ok
    /\ lastCall.paid > 0 /\ lastCall.paid # lastCall.ret
    /\ totalSupply > 0

\* The accounts other than the owner
Strangers == (Callers \cup Holders) \ {Owner}

\* A call refused at its entry: it failed and nothing at all was written
RefusedAtEntry(x) == ~x.ok /\ x.w = World /\ x.log = <<>> /\ x.events = <<>>

\* C20: pause, unpause, emergencyDeleverage, setParameters,
\* setMaxLoopIterations and setMaxTotalAssets called by any account other
\* than the owner are rejected and change no state; rebalance is accepted
\* from any caller: it does for every account what it does for the owner.
C20_OwnerOnlyControls ==
    /\ \A c \in Strangers :
          /\ RefusedAtEntry(pause(World, c))
          /\ RefusedAtEntry(unpause(World, c))
          /\ RefusedAtEntry(emergencyDeleverage(World, c))
          /\ \A p \in ParamChoices : RefusedAtEntry(setParameters(World, c, p))
          /\ \A n \in LoopChoices : RefusedAtEntry(setMaxLoopIterations(World, c, n))
          /\ \A n \in CapChoices : RefusedAtEntry(setMaxTotalAssets(World, c, n))
    /\ (lastCall.ok /\ lastCall.op \in {"pause", "unpause", "emergencyDeleverage",
                                         "setParameters", "setMaxLoopIterations",
                                         "setMaxTotalAssets"})
          => lastCall.caller = Owner
    /\ AfterAcceptedCall =>
          \A c \in Strangers : rebalance(World, c) = rebalance(World, Owner)

\* a stranger was refused a control that the owner would have been granted,
\* on a vault with a leveraged position
C20_Witness ==
    /\ ~lastCall.ok /\ lastCall.caller \in Strangers
    /\ lastCall.op = "emergencyDeleverage"
    /\ emergencyDeleverage(World, Owner).ok
    /\ userReserves["borrowAsset"].debt > 0

\* The stated range of the parameters (health factors in units of 0.01)
ValidParams(p) ==
    /\ 105 <= p.min /\ p.min < p.target /\ p.target < p.max /\ p.max <= 300
    /\ 110 <= p.target /\ p.target <= 200
    /\ 0 < p.ltv /\ p.ltv <= 8000

CurrentParams ==
    [target |-> targetHealthFactor, min |-> minHealthFactor,
     max |-> maxHealthFactor, ltv |-> targetLTV]

\* Parameter sets at and just beyond each limit
ParamProbes ==
    ParamChoices \cup
    { [target |-> 100, min |-> 115, max |-> 150, ltv |-> 6000],
      [target |-> 150, min |-> 115, max |-> 140, ltv |-> 6000],
      [target |-> 130, min |-> 115, max |-> 150, ltv |-> 8500],
      [target |-> 130, min |-> 115, max |-> 150, ltv |-> 0],
      [target |-> 110, min |-> 105, max |-> 300, ltv |-> 8000],
      [target |-> 200, min |-> 105, max |-> 300, ltv |-> 1],
      [target |-> 201, min |-> 115, max |-> 300, ltv |-> 6000],
      [target |-> 130, min |-> 104, max |-> 150, ltv |-> 6000],
      [target |-> 130, min |-> 115, max |-> 301, ltv |-> 6000],
      [target |-> 130, min |-> 130, max |-> 150, ltv |-> 6000],
      [target |-> 130, min |-> 115, max |-> 130, ltv |-> 6000] }

\* C21: in every reachable state 1.05 <= minHealthFactor < targetHealthFactor
\* < maxHealthFactor <= 3.0, targetHealthFactor is in [1.1, 2.0], 0 <
\* targetLTV <= 8000, maxLoopIterations is in 1..10 and maxTotalAssets > 0;
\* the owner's setParameters, setMaxLoopIterations or setMaxTotalAssets with
\* values outside this range is rejected and writes nothing, and with
\* values inside it is accepted.
C21_ParameterValidity ==
    /\ ValidParams(CurrentParams)
    /\ maxLoopIterations \in 1..10
    /\ maxTotalAssets > 0
    /\ AfterAcceptedCall =>
          /\ \A p \in ParamProbes :
                IF ValidParams(p) THEN setParameters(World, Owner, p).ok
                ELSE RefusedAtEntry(setParameters(World, Owner, p))
          /\ \A n \in LoopChoices \cup {1, 10} :
                IF n \in 1..10 THEN setMaxLoopIterations(World, Owner, n).ok
                ELSE RefusedAtEntry(setMaxLoopIterations(World, Owner, n))
          /\ \A n \in CapChoices \cup {1} :
                IF n > 0 THEN setMaxTotalAssets(World, Owner, n).ok
                ELSE RefusedAtEntry(setMaxTotalAssets(World, Owner, n))

\* the owner asked for min = 1.4 under target = 1.3 and was refused, on
\* parameters that an earlier call had changed
C21_Witness ==
    /\ ~lastCall.ok /\ lastCall.op = "setParameters" /\ lastCall.caller = Owner
    /\ lastCall.amount = 140
    /\ targetHealthFactor = 150

\* The position needs no rebalancing: the health factor is within
\* [minHealthFactor, maxHealthFactor], or it is above and there is no debt
InRange(w) ==
    LET pos == _getPositionData(w)
    IN \/ HFGe(pos.healthFactor, w.minHealthFactor)
          /\ ~HFGt(pos.healthFactor, w.maxHealthFactor)
       \/ pos.debt = 0 /\ HFGt(pos.healthFactor, w.maxHealthFactor)

\* a rebalance that did nothing: it returned false, called the market not
\* once, emitted nothing and left every variable as it was
NoAction(x, w) ==
    x.ok /\ x.ret = 0 /\ x.log = <<>> /\ x.events = <<>> /\ x.w = w

HFLeq(a, b) ==
    IF b.den = 0 THEN TRUE
    ELSE IF a.den = 0 THEN FALSE
    ELSE (a.num \div 100) * b.den <= (b.num \div 100) * a.den

\* The branch rebalance takes from a state
Branch(w) ==
    LET pos == _getPositionData(w)
    IN IF HFLt(pos.healthFactor, w.minHealthFactor) THEN "deleverage"
       ELSE IF HFGt(pos.healthFactor, w.maxHealthFactor) /\ pos.debt > 0 THEN "releverage"
       ELSE "none"

\* C23: a successful rebalance() in the deleverage branch (health factor
\* below minHealthFactor) never ends with a lower health factor than before
\* nor with more debt; in the re-leverage branch (health factor above
\* maxHealthFactor, debt > 0) it never ends with a higher health factor than
\* before nor with less debt.
C23_RebalanceTowardTarget ==
    [][(lastCall'.op = "rebalance" /\ lastCall'.ok) =>
          /\ Branch(World) = "deleverage" =>
                /\ HFLeq(_getPositionData(World).healthFactor,
                         _getPositionData(World').healthFactor)
                /\ _getPositionData(World').debt <= _getPositionData(World).debt
          /\ Branch(World) = "releverage" =>
                /\ HFLeq(_getPositionData(World').healthFactor,
                         _getPositionData(World).healthFactor)
                /\ _getPositionData(World').debt >= _getPositionData(World).debt]_vars

\* a rebalance entered below minHealthFactor that repaid debt
C23_Witness ==
    /\ lastCall.op = "rebalance" /\ lastCall.ok /\ lastCall.ret = 1
    /\ lastCall.poolCalls > 1
    /\ HFLt(lastCall.events[1].oldHealthFactor, minHealthFactor)

\* C24: across every rebalance() and emergencyDeleverage() call, successful
\* or not, no holder's share balance, no allowance and not totalShares
\* change.
C24_LedgerUntouched ==
    [][(lastCall'.op \in {"rebalance", "emergencyDeleverage"}) =>
          /\ balanceOf' = balanceOf
          /\ allowances' = allowances
          /\ totalSupply' = totalSupply]_vars

\* the position was unwound, or rebalanced, under holders of shares
C24_Witness ==
    /\ lastCall.op \in {"rebalance", "emergencyDeleverage"} /\ lastCall.ok
    /\ lastCall.poolCalls > 1
    /\ totalSupply > 0

ReferenceDeposit == deposit(World, "user1", 100, "user1")

Near(a, b) == a - b <= 5 /\ b - a <= 5

\* C26: in a fresh vault with targetLTV = 6000, maxLoopIterations = 4 and a
\* 1:1 price, a deposit of 100 units succeeds, mints exactly 100 shares,
\* leaves collateralValue within 5 of 230 and debtValue within 5 of 130, and
\* a health factor above 1.15.
C26_ReferenceScenario ==
    (/\ txCount = 0 /\ totalSupply = 0
     /\ targetLTV = 6000 /\ maxLoopIterations = 4
     /\ \A a \in Assets : price[a] = PRICE_SCALE) =>
        /\ ReferenceDeposit.ok
        /\ ReferenceDeposit.ret = 100
        /\ Near(_getPositionData(ReferenceDeposit.w).collateral, 230)
        /\ Near(_getPositionData(ReferenceDeposit.w).debt, 130)
        /\ HFGt(_getPositionData(ReferenceDeposit.w).healthFactor, 115)

\* the positions, in the order of execution of the last call, of a step
StepsAt(name) == {i \in 1..Len(lastCall.steps) : lastCall.steps[i].step = name}
MarketSteps ==
    StepsAt("supply") \cup StepsAt("withdraw") \cup StepsAt("borrow") \cup StepsAt("repay")
BaseWithdrawals == {i \in StepsAt("withdraw") : lastCall.steps[i].asset = "asset"}
Before(S, T) == \A i \in S : \A j \in T : i < j

\* C27: within deposit the shares are minted before the first market supply
\* and the final health factor check comes after the last supply; within
\* withdraw and redeem the owner's shares are burned before any market
\* withdraw or repay, the base-asset withdrawal from the market precedes the
\* transfer to the receiver, and the health factor check, made only when
\* totalShares > 0 after the burn, comes after all market mutations.
C27_OperationOrdering ==
    /\ (lastCall.op = "deposit" /\ lastCall.ok) =>
          /\ Cardinality(StepsAt("_mint")) = 1
          /\ StepsAt("supply") # {}
          /\ Before(StepsAt("_mint"), MarketSteps)
          /\ Cardinality(StepsAt("checkHealthFactor")) = 1
          /\ Before(MarketSteps, StepsAt("checkHealthFactor"))
    /\ (lastCall.op \in {"withdraw", "redeem"} /\ lastCall.ok) =>
          /\ Cardinality(StepsAt("_burn")) = 1
          /\ Before(StepsAt("_burn"), MarketSteps)
          /\ Cardinality(StepsAt("safeTransfer")) = 1
          /\ Before(BaseWithdrawals, StepsAt("safeTransfer"))
          /\ (StepsAt("checkHealthFactor") # {}) = (totalSupply > 0)
          /\ Before(MarketSteps, StepsAt("checkHealthFactor"))

\* a withdrawal, after a deposit that borrowed, that repaid debt, withdrew
\* base asset from the market and was checked
C27_Witness ==
    /\ lastCall.op \in {"withdraw", "redeem"} /\ lastCall.ok
    /\ StepsAt("repay") # {} /\ BaseWithdrawals # {}
    /\ StepsAt("checkHealthFactor") # {}

\* the pool's reserves after the first n pool calls of a log, from ur
RECURSIVE ReservesAfter(_, _, _)
ReservesAfter(ur, log, n) ==
    IF n = 0 THEN ur
    ELSE LET prev == ReservesAfter(ur, log, n - 1)
             e == log[n]
         IN IF e.call = "supply" THEN [prev EXCEPT ![e.asset].collateral = @ + e.amount]
            ELSE IF e.call = "withdraw" THEN [prev EXCEPT ![e.asset].collateral = @ - e.amount]
            ELSE IF e.call = "borrow" THEN [prev EXCEPT ![e.asset].debt = @ + e.amount]
            ELSE [prev EXCEPT ![e.asset].debt = @ - e.amount]

\* the position a fresh query reports after the first n pool calls of a log
PositionAfter(w, log, n) ==
    _getPositionData([w EXCEPT !.userReserves = ReservesAfter(w.userReserves, log, n)])
BorrowCap(w, log, n) == (PositionAfter(w, log, n).collateral * w.targetLTV) \div BASIS_POINTS

\* C28: in each iteration of the loop of a deposit the amount borrowed is
\* exactly floor(collateralValue * targetLTV / 10000) - debtValue of a fresh
\* position query and is immediately re-supplied in full; no borrow is made
\* when floor(collateralValue * targetLTV / 10000) <= debtValue; and, prices
\* being unchanged, after every borrow made by the loop
\* debtValue <= floor(collateralValue * targetLTV / 10000).
C28_LoopBorrowRule ==
    [][(lastCall'.op = "deposit" /\ lastCall'.ok) =>
          \A i \in 1..Len(lastCall'.log) :
              lastCall'.log[i].call = "borrow" =>
                  /\ lastCall'.log[i].asset = "borrowAsset"
                  /\ BorrowCap(World, lastCall'.log, i - 1)
                        > PositionAfter(World, lastCall'.log, i - 1).debt
                  /\ lastCall'.log[i].amount
                        = BorrowCap(World, lastCall'.log, i - 1)
                            - PositionAfter(World, lastCall'.log, i - 1).debt
                  /\ i < Len(lastCall'.log)
                  /\ lastCall'.log[i + 1] = [call |-> "supply", asset |-> "borrowAsset",
                                             amount |-> lastCall'.log[i].amount]
                  /\ PositionAfter(World, lastCall'.log, i).debt
                        <= BorrowCap(World, lastCall'.log, i)]_vars

\* the checks of deposit before it touches the market
Admissible(w, assets) ==
    /\ ~w.paused /\ w._status = "NOT_ENTERED"
    /\ assets > 0 /\ assets <= maxDeposit(w)
    /\ previewDeposit(w, assets) > 0

\* the position after the initial supply of a deposit, and nothing else
SuppliedOnly(w, assets) ==
    _getPositionData([w EXCEPT !.userReserves["asset"].collateral = @ + assets])

NoBorrowCapacity(w, assets) ==
    (SuppliedOnly(w, assets).collateral * w.targetLTV) \div BASIS_POINTS
        <= SuppliedOnly(w, assets).debt

\* x, the outcome of a deposit into w without borrow capacity, is the
\* initial supply alone, accepted if the health factor after it is at least
\* the minimum
SupplyAlone(w, assets, x) ==
    /\ HFGe(SuppliedOnly(w, assets).healthFactor, w.minHealthFactor) => x.ok
    /\ x.ok =>
          /\ x.log = <<[call |-> "supply", asset |-> "asset", amount |-> assets]>>
          /\ \A a \in Assets : x.w.userReserves[a].debt = w.userReserves[a].debt

UnleveragedDeposit(w, assets) ==
    (NoBorrowCapacity(w, assets) /\ Admissible(w, assets)) =>
        SupplyAlone(w, assets, deposit(w, "user1", assets, "user1"))

ZeroLTV == [World EXCEPT !.targetLTV = 0]

Deleveraged ==
    /\ lastCall.op = "rebalance" /\ lastCall.ok /\ lastCall.ret = 1
    /\ HFLt(lastCall.events[1].oldHealthFactor, minHealthFactor)

\* C30: every successful rebalance() that takes the deleverage branch (health
\* factor below minHealthFactor at entry) ends with a health factor of at
\* least targetHealthFactor or with no debt.
C30_DeleveragePostcondition ==
    Deleveraged =>
        \/ HFGe(HealthFactor, targetHealthFactor)
        \/ _getPositionData(World).debt = 0

\* a deleverage that repaid in several rounds and stopped with debt left
C30_Witness ==
    /\ Deleveraged
    /\ Cardinality(StepsAt("repay")) > 1
    /\ _getPositionData(World).debt > 0

\* the rebalance() a caller could make now, as far as it gets
RebalanceNow == rebalance(World, "user1")

\* the positions at which the deleverage loop of RebalanceNow tests its
\* condition: before its first pool call and after every repay
LoopEntries == {n \in 0..Len(RebalanceNow.log) : n % 2 = 0}

\* C31: the deleverage loop terminates, and in every iteration entered with
\* healthFactor < targetHealthFactor and debt > 0 the amount repaid is
\* strictly positive and at most debt, for every debt value including debts
\* below 10 units.
C31_DeleverageProgress ==
    (AfterAcceptedCall /\ Branch(World) = "deleverage") =>
        \A n \in LoopEntries :
            (/\ HFLt(PositionAfter(World, RebalanceNow.log, n).healthFactor,
                     targetHealthFactor)
             /\ PositionAfter(World, RebalanceNow.log, n).debt > 0) =>
                /\ toRepayOf(PositionAfter(World, RebalanceNow.log, n).debt,
                             PositionAfter(World, RebalanceNow.log, n).healthFactor,
                             targetHealthFactor) > 0
                /\ toRepayOf(PositionAfter(World, RebalanceNow.log, n).debt,
                             PositionAfter(World, RebalanceNow.log, n).healthFactor,
                             targetHealthFactor)
                      <= PositionAfter(World, RebalanceNow.log, n).debt

\* the valid parameter settings tried, and the vault under one of them
Settings == {p \in ParamProbes : ValidParams(p)} \cup {CurrentParams}
Under(p) ==
    [World EXCEPT !.targetHealthFactor = p.target, !.minHealthFactor = p.min,
                  !.maxHealthFactor = p.max, !.targetLTV = p.ltv]

\* every borrow of a log is of a positive amount, smaller than the borrow
\* of the iteration before it
Shrinking(log) ==
    \A i \in 1..Len(log) :
        log[i].call = "borrow" =>
            /\ log[i].amount > 0
            /\ \A j \in 1..(i - 1) : log[j].call = "borrow" => log[j].amount > log[i].amount

\* C32 as stated: the re-leverage loop, which has no iteration cap, terminates from
\* every starting position and for every valid parameter setting: each
\* iteration borrows a strictly positive amount that strictly shrinks, until
\* healthFactor <= maxHealthFactor or
\* floor(collateral * targetLTV / 10000) <= debt.
C32_ReleverageTerminates ==
    AfterAcceptedCall =>
        \A p \in Settings : Shrinking(_releverageToTarget(Begin(Under(p))).log)

\* the borrow capacity left at targetLTV under reserves ur, valued at the
\* prices of w without rounding
CapacityLeft(w, ur) ==
    (ur[reservesList[1]].collateral * w.price[reservesList[1]]
       + ur[reservesList[2]].collateral * w.price[reservesList[2]]) * w.targetLTV
    - (ur[reservesList[1]].debt * w.price[reservesList[1]]
         + ur[reservesList[2]].debt * w.price[reservesList[2]]) * BASIS_POINTS

\* w is a position at which the re-leverage loop stops
ReleverageDone(w) ==
    \/ ~HFGt(_getPositionData(w).healthFactor, w.maxHealthFactor)
    \/ (_getPositionData(w).collateral * w.targetLTV) \div BASIS_POINTS
          <= _getPositionData(w).debt

\* every borrow of x, a run of the re-leverage loop from w, is of a positive
\* amount, not larger than the borrow before it, and leaves less capacity
\* than there was before it; a run that is not reverted ends where the loop
\* stops
ReleverageRun(w, x) ==
    /\ \A i \in 1..Len(x.log) :
          x.log[i].call = "borrow" =>
              /\ x.log[i].amount > 0
              /\ \A j \in 1..(i - 1) :
                    x.log[j].call = "borrow" => x.log[j].amount >= x.log[i].amount
              /\ i < Len(x.log) =>
                    CapacityLeft(w, ReservesAfter(w.userReserves, x.log, i + 1))
                        < CapacityLeft(w, ReservesAfter(w.userReserves, x.log, i - 1))
    /\ x.ok => ReleverageDone(x.w)

\* C32, amended: the re-leverage loop terminates from every starting
\* position and for every valid parameter setting: each iteration borrows a
\* strictly positive amount that never grows and strictly shrinks the
\* borrow capacity left, until healthFactor <= maxHealthFactor or
\* floor(collateral * targetLTV / 10000) <= debt.
C32_ReleverageCapacityShrinks ==
    AfterAcceptedCall =>
        \A p \in Settings : ReleverageRun(Under(p), _releverageToTarget(Begin(Under(p))))

\* an accepted rebalance() re-leveraged in several iterations, two of them
\* borrowing the same amount
C32_Witness ==
    /\ lastCall.op = "rebalance" /\ lastCall.ok /\ lastCall.ret = 1
    /\ HFGt(lastCall.events[1].oldHealthFactor, maxHealthFactor)
    /\ \E i \in 1..Len(lastCall.log) : \E j \in 1..Len(lastCall.log) :
          /\ i < j
          /\ lastCall.log[i].call = "borrow" /\ lastCall.log[j].call = "borrow"
          /\ lastCall.log[i].amount = lastCall.log[j].amount

\* C33: every successful rebalance() that takes the re-leverage branch
\* (healthFactor > maxHealthFactor and debt > 0 at entry) ends with
\* healthFactor <= maxHealthFactor or with no remaining borrow capacity
\* (floor(collateral * targetLTV / 10000) <= debt), and emits a Rebalanced
\* event carrying the health factor before and after.
C33_ReleveragePostcondition ==
    [][(lastCall'.op = "rebalance" /\ lastCall'.ok /\ Branch(World) = "releverage") =>
          /\ ReleverageDone(World')
          /\ lastCall'.ret = 1
          /\ lastCall'.events
                = <<[name |-> "Rebalanced",
                     oldHealthFactor |-> _getPositionData(World).healthFactor,
                     newHealthFactor |-> _getPositionData(World').healthFactor]>>]_vars

\* an accepted rebalance() that borrowed and reported a lower health factor
C33_Witness ==
    /\ lastCall.op = "rebalance" /\ lastCall.ok
    /\ StepsAt("borrow") # {}
    /\ Len(lastCall.events) = 1
    /\ HFGt(lastCall.events[1].oldHealthFactor, maxHealthFactor)
    /\ ~HFLeq(lastCall.events[1].oldHealthFactor, lastCall.events[1].newHealthFactor)

\* the amounts some holder could pass to withdraw now, up to MaxUnwind
MaxUnwind == 9
UnwindAmounts ==
    {a \in 1..MaxUnwind : \E h \in Holders : a <= maxWithdraw(World, h)}

\* the pool calls of x, an unwind of assetsToWithdraw that repays toRepay
UnwindCalls(x, assetsToWithdraw, toRepay) ==
    IF toRepay = 0
    THEN x.log = <<[call |-> "withdraw", asset |-> "asset", amount |-> assetsToWithdraw]>>
    ELSE x.log = <<[call |-> "withdraw", asset |-> "borrowAsset", amount |-> toRepay],
                   [call |-> "repay", asset |-> "borrowAsset", amount |-> toRepay],
                   [call |-> "withdraw", asset |-> "asset", amount |-> assetsToWithdraw]>>

\* x, the unwind of assetsToWithdraw from position pos, repays
\* floor(debt * assetsToWithdraw / collateral)
UnwindAsStated(pos, assetsToWithdraw, x) ==
    IF pos.collateral = 0 THEN x.ok /\ x.log = <<>>
    ELSE /\ (pos.debt * assetsToWithdraw) \div pos.collateral <= pos.debt
         /\ x.ok => UnwindCalls(x, assetsToWithdraw,
                                (pos.debt * assetsToWithdraw) \div pos.collateral)

UnwindWithin(pos, assetsToWithdraw, x) ==
    IF pos.collateral = 0 THEN x.ok /\ x.log = <<>>
    ELSE x.ok =>
           \E toRepay \in {(pos.debt * assetsToWithdraw) \div pos.collateral,
                           (pos.debt * assetsToWithdraw) \div pos.collateral - 1} :
               /\ 0 <= toRepay /\ toRepay <= pos.debt
               /\ (pos.debt * assetsToWithdraw) % pos.collateral # 0
                     => toRepay = (pos.debt * assetsToWithdraw) \div pos.collateral
               /\ UnwindCalls(x, assetsToWithdraw, toRepay)

Requests == {r \in Holders \X (1..MaxUnwind) : r[2] <= maxWithdraw(World, r[1])}

\* x, an accepted withdrawal from w, left less collateral and less debt
BothLower(w, x) ==
    x.ok => /\ _getPositionData(x.w).collateral < _getPositionData(w).collateral
            /\ _getPositionData(x.w).debt < _getPositionData(w).debt

\* C35 as stated: every successful withdraw of assets > 0 from a position
\* with debt > 0 leaves both collateralValue and debtValue strictly lower
\* than before the call.
C35_UnwindReducesBoth ==
    (AfterAcceptedCall /\ _getPositionData(World).debt > 0) =>
        \A r \in Requests : BothLower(World, withdraw(World, r[1], r[2], r[1], r[1]))

\* the value, in base-currency units times PRICE_SCALE, of the tokens of
\* asset a moved by the pool calls named call in a log
RECURSIVE Moved(_, _, _, _)
Moved(w, log, call, a) ==
    IF log = <<>> THEN 0
    ELSE (IF log[1].call = call /\ log[1].asset = a THEN log[1].amount * w.price[a] ELSE 0)
         + Moved(w, Tail(log), call, a)

\* x, an accepted withdrawal from w, left no more collateral and no more
\* debt, and less of each when the tokens taken out, or repaid, are worth
\* a unit
NeitherHigher(w, x) ==
    x.ok =>
        LET pre == _getPositionData(w)
            post == _getPositionData(x.w)
        IN /\ post.collateral <= pre.collateral
           /\ post.debt <= pre.debt
           /\ x.w.userReserves["asset"].collateral < w.userReserves["asset"].collateral
           /\ Moved(w, x.log, "withdraw", "asset") >= PRICE_SCALE
                 => post.collateral < pre.collateral
           /\ Moved(w, x.log, "repay", "borrowAsset") >= PRICE_SCALE
                 => post.debt < pre.debt

\* C35, amended: every successful withdraw of assets > 0 from a position
\* with debt > 0 takes base asset out of the collateral and leaves neither
\* collateralValue nor debtValue higher than before the call;
\* collateralValue is strictly lower when the assets withdrawn are worth at
\* least one unit, and debtValue is strictly lower when the debt repaid is
\* worth at least one unit.
C35_UnwindReducesPosition ==
    (AfterAcceptedCall /\ _getPositionData(World).debt > 0) =>
        \A r \in Requests : NeitherHigher(World, withdraw(World, r[1], r[2], r[1], r[1]))

\* an accepted withdrawal from an indebted position that repaid debt
C35_Witness ==
    /\ lastCall.op = "withdraw" /\ lastCall.ok /\ lastCall.amount > 0
    /\ StepsAt("repay") # {}
    /\ _getPositionData(World).debt > 0

\* position post is not more leveraged than position pre, give or take one
\* unit of collateral and one unit of debt
NotMoreLeveraged(pre, post) ==
    \/ post.debt <= 1
    \/ /\ (post.debt - 1) * pre.collateral <= pre.debt * (post.collateral + 1)
       /\ HFLeq(pre.healthFactor,
                healthFactorOf(post.collateral + 1, post.debt - 1, LIQUIDATION_THRESHOLD))

\* C36: after every successful partial withdraw or redeem (totalShares > 0
\* afterwards, prices unchanged) the remaining position's debt-to-collateral
\* ratio is not higher, and its health factor not lower, than before the
\* call, up to integer rounding.
C36_UnwindKeepsLeverage ==
    [][(lastCall'.op \in {"withdraw", "redeem"} /\ lastCall'.ok /\ totalSupply' > 0) =>
          NotMoreLeveraged(_getPositionData(World), _getPositionData(World'))]_vars

\* C37: from every reachable state in which the vault has debt > 0, an
\* emergencyDeleverage() call by the owner succeeds.
C37_EmergencyAvailable ==
    (AfterAcceptedCall /\ _getPositionData(World).debt > 0) =>
        emergencyDeleverage(World, Owner).ok

\* C38: whenever rebalance() returns true and emits Rebalanced, at least one
\* repay or borrow was performed on the lending market during the call; in
\* particular on a vault with no collateral and no debt it returns false.
C38_RebalanceTruthful ==
    /\ (lastCall.op = "rebalance" /\ lastCall.ok /\ lastCall.ret = 1) =>
          StepsAt("repay") \cup StepsAt("borrow") # {}
    /\ (AfterAcceptedCall /\ _getPositionData(World).collateral = 0
           /\ _getPositionData(World).debt = 0) =>
          RebalanceNow.ok /\ RebalanceNow.ret = 0 /\ RebalanceNow.events = <<>>

\* C39: in every reachable state with totalShares = 0 (a fresh vault, or
\* after a withdraw or redeem that burned the last outstanding shares) the
\* vault's debtValue at the lending market is 0.
C39_NoOrphanedDebt ==
    totalSupply = 0 => _getPositionData(World).debt = 0

====
